---- MODULE Spec2Model ----
(***************************************************************************)
(* Model of ElasticTools (src/index.js): the alias-swap and retention       *)
(* protocol run by concurrent invocations against one search cluster.       *)
(* Every cluster call (an await in the source) is one atomic step: the       *)
(* cluster handles the request and the invocation continues up to its next  *)
(* await.                                                                    *)
(***************************************************************************)
EXTENDS Integers, Sequences, FiniteSets, TLC

\* ------------------------------------------------------------------------
\* Bounds of the model
\* ------------------------------------------------------------------------
MaxDate == 2
MaxNow == 3
MaxDays == 1
DayLen == 2

\* The concurrent invocations
Procs == {"p1", "p2"}
Dates == 0..MaxDate
Nows == 0..MaxNow
DaysToKeep == 0..MaxDays

\* The alias / index prefix the invocations work on, the indices named
\* <prefix>_<n>, and two indices of other families.
AliasName == "app"
\* A second alias, which no operation of the model is called with
OtherAlias == "search"
AliasNames == {AliasName, OtherAlias}
AppIndices == {"app_1", "app_2", "app_3"}
OtherIndices == {"web_1", "string"}
AllIndices == AppIndices \cup OtherIndices

Range(s) == {s[i] : i \in 1..Len(s)}

\* ------------------------------------------------------------------------
\* JavaScript values handed to updateAlias
\* ------------------------------------------------------------------------
Str(s) == [t |-> "string", s |-> s, a |-> <<>>, n |-> 0]
Arr(a) == [t |-> "array", s |-> "", a |-> a, n |-> 0]
Num(n) == [t |-> "number", s |-> "", a |-> <<>>, n |-> n]
Undefined == [t |-> "undefined", s |-> "", a |-> <<>>, n |-> 0]
Null == [t |-> "null", s |-> "", a |-> <<>>, n |-> 0]

\* JavaScript truthiness: "", 0, null and undefined are falsy, every array
\* (the empty one too) is truthy.
Truthy(v) ==
    CASE v.t = "string" -> v.s # ""
      [] v.t = "array" -> TRUE
      [] v.t = "number" -> v.n # 0
      [] OTHER -> FALSE

\* typeof v === 'string' || Array.isArray(v)
IsStringOrArray(v) == v.t = "string" \/ v.t = "array"

\* v.length of a string or an array
JsLength(v) == IF v.t = "string" THEN Len(v.s) ELSE Len(v.a)

\* Destructuring default "= []": applies to undefined only.
DefaultArg(v) == IF v.t = "undefined" THEN Arr(<<>>) ELSE v

\* add === 'string' ? [add] : add
WrapIfString(v) == IF v.t = "string" /\ v.s = "string" THEN Arr(<<v.s>>) ELSE v

\* The array the if/else-if chain of updateAlias leaves in addArr/removeArr
\* when it does not throw.
ResolveArr(v) ==
    IF Truthy(v) /\ IsStringOrArray(v) THEN WrapIfString(v) ELSE Arr(<<>>)

\* A validation that lets every shape through.
RejectsShapeNever(v) == FALSE

\* The else-if branch that throws.
RejectsShape(v) == ~(Truthy(v) /\ IsStringOrArray(v)) /\ Truthy(v)

\* ------------------------------------------------------------------------
\* Errors and results
\* ------------------------------------------------------------------------
NoError == [status |-> 0, message |-> ""]
ClusterError(st) == [status |-> st, message |-> "cluster"]
ArgError(msg) == [status |-> 0, message |-> msg]

MsgAdd == "Indices to add must either be a string or an array of items"
MsgRemove == "Indices to remove must either be a string or an array of items"
MsgNone == "You must add or remove at least one index"
MsgAliasName == "aliasName cannot be null"

Pending == [status |-> "pending", value |-> <<>>, error |-> NoError]
Returned(v) == [status |-> "ok", value |-> v, error |-> NoError]
Raised(e) == [status |-> "err", value |-> <<>>, error |-> e]

\* updateAlias, lines 160-178: the error thrown before any request, or NoError
UpdateAliasError(add, remove) ==
    LET a == DefaultArg(add)
        r == DefaultArg(remove)
    IN  IF RejectsShape(a) THEN ArgError(MsgAdd)
        ELSE IF RejectsShape(r) THEN ArgError(MsgRemove)
        ELSE IF JsLength(ResolveArr(a)) = 0 /\ JsLength(ResolveArr(r)) = 0
             THEN ArgError(MsgNone)
        ELSE NoError

AliasAction(type, indices, alias) ==
    [type |-> type, indices |-> indices, alias |-> alias]

\* The action list with the remove action pushed first.
UpdateAliasActionsRemoveFirst(aliasName, add, remove) ==
    LET addArr == ResolveArr(DefaultArg(add))
        removeArr == ResolveArr(DefaultArg(remove))
    IN  (IF JsLength(removeArr) # 0
            THEN <<AliasAction("remove", removeArr, aliasName)>> ELSE <<>>)
        \o
        (IF JsLength(addArr) # 0
            THEN <<AliasAction("add", addArr, aliasName)>> ELSE <<>>)

\* updateAlias, lines 180-191: the action list of the request
UpdateAliasActions(aliasName, add, remove) ==
    LET addArr == ResolveArr(DefaultArg(add))
        removeArr == ResolveArr(DefaultArg(remove))
    IN  (IF JsLength(addArr) # 0
            THEN <<AliasAction("add", addArr, aliasName)>> ELSE <<>>)
        \o
        (IF JsLength(removeArr) # 0
            THEN <<AliasAction("remove", removeArr, aliasName)>> ELSE <<>>)

\* One alias-update request per action, submitted one after the other.
UpdateAliasRequestsPerAction(actions) == [k \in 1..Len(actions) |-> <<actions[k]>>]

\* updateAlias, lines 195-199: the alias-update requests the call submits,
\* one request holding the whole action list.
UpdateAliasRequests(actions) == <<actions>>

\* ------------------------------------------------------------------------
\* getIndicesOlderThan and getIndicesForAlias: what they compute from the
\* cluster's answer
\* ------------------------------------------------------------------------

\* A cluster answer: an error (NoError on success) and, on success, the
\* keys of the response object in the order the response lists them.
Response(e, keys) == [error |-> e, keys |-> keys]

Perms(S) == {s \in [1..Cardinality(S) -> S] : Range(s) = S}

\* The index pattern aliasName + '*'
StartsWith(s, prefix) ==
    Len(prefix) <= Len(s) /\ SubSeq(s, 1, Len(prefix)) = prefix

\* The insertion of a sort with comparator adate - bdate.
InsertByDateAsc(sorted, x, dates) ==
    LET k == Cardinality({j \in 1..Len(sorted) : dates[sorted[j]] <= dates[x]})
    IN  SubSeq(sorted, 1, k) \o <<x>> \o SubSeq(sorted, k + 1, Len(sorted))

\* One insertion of the stable sort with comparator bdate - adate: x goes
\* behind every element that is not older than it.
InsertByDateDesc(sorted, x, dates) ==
    LET k == Cardinality({j \in 1..Len(sorted) : dates[sorted[j]] >= dates[x]})
    IN  SubSeq(sorted, 1, k) \o <<x>> \o SubSeq(sorted, k + 1, Len(sorted))

RECURSIVE SortByDateDesc(_, _)
SortByDateDesc(s, dates) ==
    IF s = <<>> THEN <<>>
    ELSE InsertByDateDesc(SortByDateDesc(SubSeq(s, 1, Len(s) - 1), dates),
                          s[Len(s)], dates)

\* The filter with creation_date <= datetime.
OlderThanInclusive(keys, dates, datetime) ==
    LET IsOlder(idx) == dates[idx] <= datetime
    IN  SortByDateDesc(SelectSeq(keys, IsOlder), dates)

\* getIndicesOlderThan, lines 141-150
OlderThan(keys, dates, datetime) ==
    LET IsOlder(idx) == dates[idx] < datetime
    IN  SortByDateDesc(SelectSeq(keys, IsOlder), dates)

\* getIndicesForAlias without the 404 case.
GetIndicesForAliasResultStrict(resp) ==
    IF resp.error = NoError THEN Returned(resp.keys) ELSE Raised(resp.error)

\* getIndicesForAlias, lines 215-230: the result for a cluster answer
GetIndicesForAliasResult(resp) ==
    IF resp.error = NoError THEN Returned(resp.keys)
    ELSE IF resp.error.status = 404 THEN Returned(<<>>)
    ELSE Raised(resp.error)

\* A removal list that holds the first other binding only.
RemoveIdxFirst(assoc, indexName) ==
    LET Differs(idx) == idx # indexName
    IN  IF SelectSeq(assoc, Differs) = <<>> THEN <<>>
        ELSE <<Head(SelectSeq(assoc, Differs))>>

\* A removal list that holds every binding, the target too.
RemoveIdxAll(assoc, indexName) == assoc

\* assocIndices.filter(idx => idx !== indexName)
RemoveIdx(assoc, indexName) ==
    LET Differs(idx) == idx # indexName
    IN  SelectSeq(assoc, Differs)

\* The deletion list without the alias filter.
IndicesToDeleteAll(old, aliased) == old

\* oldIndices.filter((idx) => !aliasedIndices.includes(idx))
IndicesToDelete(old, aliased) ==
    LET NotAliased(idx) == idx \notin Range(aliased)
    IN  SelectSeq(old, NotAliased)

\* moment().subtract(daysToKeep, 'days').startOf('day').valueOf()
StartOfDay(t) == t - (t % DayLen)
OlderThanDate(now, daysToKeep) == StartOfDay(now - daysToKeep * DayLen)

\* ------------------------------------------------------------------------
\* The cluster
\* ------------------------------------------------------------------------
ActionIndices(act) ==
    IF act.indices.t = "string" THEN {act.indices.s} ELSE Range(act.indices.a)

ApplyAction(al, act) ==
    IF act.type = "add"
        THEN [al EXCEPT ![act.alias] = @ \cup ActionIndices(act)]
        ELSE [al EXCEPT ![act.alias] = @ \ ActionIndices(act)]

\* One alias-update request: its actions in order, as one transaction.
RECURSIVE ApplyActions(_, _)
ApplyActions(al, actions) ==
    IF actions = <<>> THEN al
    ELSE ApplyActions(ApplyAction(al, Head(actions)), Tail(actions))

RequestIndices(actions) == UNION {ActionIndices(actions[k]) : k \in 1..Len(actions)}

\* The keys of a response object: the cluster lists the indices of S in
\* the order of its index table.
Keys(order, S) ==
    LET InS(idx) == idx \in S
    IN  SelectSeq(order, InS)

\* Answers to GET /_alias/<name>
GetAliasResponses(order, bound) ==
    {Response(ClusterError(500), <<>>)} \cup
    (IF bound = {} THEN {Response(ClusterError(404), <<>>)}
     ELSE {Response(NoError, Keys(order, bound))})

\* Answers that still list the indices the cluster has deleted.
GetSettingsResponsesStale(order, existing, prefix) ==
    {Response(ClusterError(500), <<>>),
     Response(NoError, Keys(order, {i \in Range(order) : StartsWith(i, prefix)}))}

\* Answers to GET /<prefix>*/_settings/index.creation_date
GetSettingsResponses(order, existing, prefix) ==
    {Response(ClusterError(500), <<>>),
     Response(NoError, Keys(order, {i \in existing : StartsWith(i, prefix)}))}

\* Requests as the invocation's log records them
Req(api, target, actions) == [api |-> api, target |-> target, actions |-> actions]

\* ------------------------------------------------------------------------
\* State
\* ------------------------------------------------------------------------
VARIABLES
    exists,          \* the indices the cluster holds
    creation_date,   \* index.creation_date of each index
    aliases,         \* alias name -> the indices bound to it
    listing,         \* the order in which the cluster's answers list indices
    docs,            \* the documents stored, as <<index, id>> pairs
    loggerFails,     \* whether the logger given to the constructor throws
    op,              \* per invocation: the operation it runs
    pc,              \* per invocation: the cluster call it waits to make
    name,            \* aliasName / indexPrefix argument
    indexName,       \* indexName argument of setAliasToSingleIndex
    addArg,          \* add argument of updateAlias
    removeArg,       \* remove argument of updateAlias
    olderThanDate,   \* datetime argument / computed cutoff
    idDocArr,        \* idDocArr argument of indexDocumentBulk
    minIndexesToKeep, \* minIndexesToKeep argument of cleanupOldIndices
    assocIndices,    \* setAliasToSingleIndex: the bindings it read
    oldIndices,      \* cleanupOldIndices: result of getIndicesOlderThan
    aliasedIndices,  \* cleanupOldIndices: the bindings it read
    pendingReqs,     \* alias-update requests not yet submitted
    inflight,        \* indices whose delete call has not settled
    requests,        \* the cluster requests issued by the invocation
    lastResp,        \* the cluster's answer to the alias query or to a direct settings query
    result,          \* what the caller gets: pending, a value, or an error
    logged           \* number of logger.error calls of the invocation

clusterVars == <<exists, creation_date, aliases, listing, docs, loggerFails>>
argVars == <<op, name, indexName, addArg, removeArg, olderThanDate, idDocArr,
            minIndexesToKeep>>
localVars == <<assocIndices, oldIndices, aliasedIndices, pendingReqs, inflight,
               requests, lastResp, result, logged>>
vars == <<exists, creation_date, aliases, listing, docs, loggerFails, op, pc, name,
          indexName, addArg, removeArg, olderThanDate, idDocArr, minIndexesToKeep,
          assocIndices, oldIndices, aliasedIndices,
          pendingReqs, inflight, requests, lastResp, result, logged>>

NoResponse == Response(NoError, <<>>)

\* The bindings of the alias the operations work on, on a cluster where the
\* other alias is bound to nothing
AliasBindings(S) == {b \in [AliasNames -> SUBSET S] : b[OtherAlias] = {}}

\* The error logger.error throws when the logger fails
LoggerError == [status |-> 0, message |-> "logger"]

\* catch (err) { this.logger.error(...); throw err; }: what leaves the
\* catch block
Rethrown(e) == IF loggerFails THEN LoggerError ELSE e
RethrownResult(res) == IF res.status = "err" THEN Raised(Rethrown(res.error)) ELSE res

\* Creation dates of the indices; the indices of the other families are old.
InitDates == {d \in [AllIndices -> Dates] : \A i \in OtherIndices : d[i] = 0}

\* Timestamped names are created in name order.
ChronologicalDates ==
    {d \in InitDates : d["app_1"] <= d["app_2"] /\ d["app_2"] <= d["app_3"]}

NameOrder == <<"app_1", "app_2", "app_3", "string", "web_1">>

InitProcs ==
    /\ op = [p \in Procs |-> "idle"]
    /\ pc = [p \in Procs |-> "idle"]
    /\ name = [p \in Procs |-> ""]
    /\ indexName = [p \in Procs |-> ""]
    /\ addArg = [p \in Procs |-> Undefined]
    /\ removeArg = [p \in Procs |-> Undefined]
    /\ olderThanDate = [p \in Procs |-> 0]
    /\ idDocArr = [p \in Procs |-> <<>>]
    /\ minIndexesToKeep = [p \in Procs |-> 0]
    /\ assocIndices = [p \in Procs |-> <<>>]
    /\ oldIndices = [p \in Procs |-> <<>>]
    /\ aliasedIndices = [p \in Procs |-> <<>>]
    /\ pendingReqs = [p \in Procs |-> <<>>]
    /\ inflight = [p \in Procs |-> {}]
    /\ requests = [p \in Procs |-> <<>>]
    /\ lastResp = [p \in Procs |-> NoResponse]
    /\ result = [p \in Procs |-> Pending]
    /\ logged = [p \in Procs |-> 0]

Init ==
    /\ exists = AllIndices
    /\ creation_date \in ChronologicalDates
    /\ aliases \in AliasBindings(AppIndices)
    /\ listing = NameOrder
    /\ docs = {}
    /\ loggerFails = FALSE
    /\ InitProcs

Upd(f, p, v) == [f EXCEPT ![p] = v]

\* ------------------------------------------------------------------------
\* Calls made by a caller
\* ------------------------------------------------------------------------
StartSetAliasToSingleIndex(p, idx) ==
    /\ pc[p] = "idle"
    /\ op' = Upd(op, p, "setAliasToSingleIndex")
    /\ name' = Upd(name, p, AliasName)
    /\ indexName' = Upd(indexName, p, idx)
    /\ pc' = Upd(pc, p, "getAlias")
    /\ UNCHANGED <<clusterVars, addArg, removeArg, olderThanDate, idDocArr, minIndexesToKeep, localVars>>

StartGetIndicesForAlias(p) ==
    /\ pc[p] = "idle"
    /\ op' = Upd(op, p, "getIndicesForAlias")
    /\ name' = Upd(name, p, AliasName)
    /\ pc' = Upd(pc, p, "getAlias")
    /\ UNCHANGED <<clusterVars, indexName, addArg, removeArg, olderThanDate,
                   idDocArr, minIndexesToKeep, localVars>>

StartGetIndicesOlderThan(p, prefix, datetime) ==
    /\ pc[p] = "idle"
    /\ op' = Upd(op, p, "getIndicesOlderThan")
    /\ name' = Upd(name, p, prefix)
    /\ olderThanDate' = Upd(olderThanDate, p, datetime)
    /\ pc' = Upd(pc, p, "getSettings")
    /\ UNCHANGED <<clusterVars, indexName, addArg, removeArg, idDocArr, minIndexesToKeep, localVars>>

\* cleanupOldIndices, lines 326-328
StartCleanupOldIndices(p, prefix, now, daysToKeep, minKeep) ==
    /\ pc[p] = "idle"
    /\ op' = Upd(op, p, "cleanupOldIndices")
    /\ name' = Upd(name, p, prefix)
    /\ olderThanDate' = Upd(olderThanDate, p, OlderThanDate(now, daysToKeep))
    /\ minIndexesToKeep' = Upd(minIndexesToKeep, p, minKeep)
    /\ pc' = Upd(pc, p, "getSettings")
    /\ UNCHANGED <<clusterVars, indexName, addArg, removeArg, idDocArr, localVars>>

\* updateAlias, lines 160-191: validation and the action list
StartUpdateAlias(p, add, remove) ==
    /\ pc[p] = "idle"
    /\ op' = Upd(op, p, "updateAlias")
    /\ name' = Upd(name, p, AliasName)
    /\ addArg' = Upd(addArg, p, add)
    /\ removeArg' = Upd(removeArg, p, remove)
    /\ IF UpdateAliasError(add, remove) # NoError
          THEN /\ result' = Upd(result, p, Raised(UpdateAliasError(add, remove)))
               /\ pc' = Upd(pc, p, "done")
               /\ UNCHANGED pendingReqs
          ELSE /\ pendingReqs' = Upd(pendingReqs, p,
                     UpdateAliasRequests(UpdateAliasActions(AliasName, add, remove)))
               /\ pc' = Upd(pc, p, "sendUpdate")
               /\ UNCHANGED result
    /\ UNCHANGED <<clusterVars, indexName, olderThanDate, idDocArr, minIndexesToKeep, assocIndices,
                   oldIndices, aliasedIndices, inflight, requests, lastResp,
                   logged>>

\* ------------------------------------------------------------------------
\* Steps of the operations: one per cluster call
\* ------------------------------------------------------------------------

\* getIndicesForAlias called directly, lines 211-231
GetIndicesForAlias_Call(p) ==
    /\ pc[p] = "getAlias"
    /\ op[p] = "getIndicesForAlias"
    /\ \E resp \in GetAliasResponses(listing, aliases[name[p]]) :
          LET r == GetIndicesForAliasResult(resp)
          IN  /\ lastResp' = Upd(lastResp, p, resp)
              /\ result' = Upd(result, p, RethrownResult(r))
              /\ logged' = Upd(logged, p, IF r.status = "err" THEN 1 ELSE 0)
    /\ requests' = Upd(requests, p, Append(requests[p], Req("getAlias", name[p], <<>>)))
    /\ pc' = Upd(pc, p, "done")
    /\ UNCHANGED <<clusterVars, argVars, assocIndices, oldIndices,
                   aliasedIndices, pendingReqs, inflight>>

\* setAliasToSingleIndex, lines 104-110, up to the alias-update request
\* (with updateAlias, lines 160-191)
SetAlias_GetIndices(p) ==
    /\ pc[p] = "getAlias"
    /\ op[p] = "setAliasToSingleIndex"
    /\ requests' = Upd(requests, p, Append(requests[p], Req("getAlias", name[p], <<>>)))
    /\ \E resp \in GetAliasResponses(listing, aliases[name[p]]) :
          LET r == GetIndicesForAliasResult(resp)
              add == Str(indexName[p])
              remove == Arr(RemoveIdx(r.value, indexName[p]))
          IN  /\ lastResp' = Upd(lastResp, p, resp)
              /\ IF r.status = "err"
                    THEN /\ result' = Upd(result, p, Raised(Rethrown(r.error)))
                         /\ logged' = Upd(logged, p, 2)
                         /\ pc' = Upd(pc, p, "done")
                         /\ UNCHANGED <<assocIndices, addArg, removeArg, pendingReqs>>
                    ELSE /\ assocIndices' = Upd(assocIndices, p, r.value)
                         /\ addArg' = Upd(addArg, p, add)
                         /\ removeArg' = Upd(removeArg, p, remove)
                         /\ IF UpdateAliasError(add, remove) # NoError
                               THEN /\ result' = Upd(result, p,
                                          Raised(Rethrown(UpdateAliasError(add, remove))))
                                    /\ logged' = Upd(logged, p, 1)
                                    /\ pc' = Upd(pc, p, "done")
                                    /\ UNCHANGED pendingReqs
                               ELSE /\ pendingReqs' = Upd(pendingReqs, p,
                                          UpdateAliasRequests(
                                              UpdateAliasActions(name[p], add, remove)))
                                    /\ pc' = Upd(pc, p, "sendUpdate")
                                    /\ UNCHANGED <<result, logged>>
    /\ UNCHANGED <<clusterVars, op, name, indexName, olderThanDate, idDocArr, minIndexesToKeep, oldIndices,
                   aliasedIndices, inflight>>

UpdateErrors(actions) ==
    {ClusterError(500)} \cup
    (IF RequestIndices(actions) \subseteq exists THEN {} ELSE {ClusterError(404)})

\* updateAlias, lines 193-203: the alias-update request and its outcome
UpdateAliases_Send(p) ==
    /\ pc[p] = "sendUpdate"
    /\ LET actions == Head(pendingReqs[p])
       IN  /\ requests' = Upd(requests, p,
                   Append(requests[p], Req("updateAliases", "", actions)))
           /\ \/ /\ RequestIndices(actions) \subseteq exists
                 /\ aliases' = ApplyActions(aliases, actions)
                 /\ pendingReqs' = Upd(pendingReqs, p, Tail(pendingReqs[p]))
                 /\ IF Tail(pendingReqs[p]) = <<>>
                       THEN /\ result' = Upd(result, p, Returned(<<>>))
                            /\ pc' = Upd(pc, p, "done")
                       ELSE UNCHANGED <<result, pc>>
                 /\ UNCHANGED logged
              \/ /\ \E e \in UpdateErrors(actions) :
                       result' = Upd(result, p, Raised(Rethrown(e)))
                 /\ pendingReqs' = Upd(pendingReqs, p, <<>>)
                 /\ logged' = Upd(logged, p,
                        IF op[p] = "setAliasToSingleIndex" THEN 2 ELSE 1)
                 /\ pc' = Upd(pc, p, "done")
                 /\ UNCHANGED aliases
    /\ UNCHANGED <<exists, creation_date, listing, docs, loggerFails, argVars,
                   assocIndices,
                   oldIndices, aliasedIndices, inflight, lastResp>>

\* The value undefined of a call made without the prefix argument (no index
\* or alias name contains "<").
AbsentName == "<undefined>"

\* !aliasName, line 125
NameMissingNever(n) == FALSE

NameMissing(n) == n = "" \/ n = AbsentName

\* getIndicesOlderThan called directly, lines 123-151
GetIndicesOlderThan_Call(p) ==
    /\ pc[p] = "getSettings"
    /\ op[p] = "getIndicesOlderThan"
    /\ IF NameMissing(name[p])
          THEN /\ result' = Upd(result, p, Raised(ArgError(MsgAliasName)))
               /\ UNCHANGED <<requests, lastResp, logged>>
          ELSE /\ requests' = Upd(requests, p,
                     Append(requests[p], Req("getSettings", name[p] \o "*", <<>>)))
               /\ \E resp \in GetSettingsResponses(listing, exists, name[p]) :
                     /\ lastResp' = Upd(lastResp, p, resp)
                     /\ IF resp.error # NoError
                           THEN /\ result' = Upd(result, p, Raised(Rethrown(resp.error)))
                                /\ logged' = Upd(logged, p, 1)
                           ELSE /\ result' = Upd(result, p, Returned(
                                      OlderThan(resp.keys, creation_date,
                                                olderThanDate[p])))
                                /\ UNCHANGED logged
    /\ pc' = Upd(pc, p, "done")
    /\ UNCHANGED <<clusterVars, argVars, assocIndices, oldIndices,
                   aliasedIndices, pendingReqs, inflight>>

\* oldIndices.length === 0, line 334
NothingToCleanNever(older) == FALSE

NothingToClean(older) == Len(older) = 0

\* cleanupOldIndices, lines 331-336
Cleanup_GetIndicesOlderThan(p) ==
    /\ pc[p] = "getSettings"
    /\ op[p] = "cleanupOldIndices"
    /\ IF NameMissing(name[p])
          THEN /\ result' = Upd(result, p, Raised(ArgError(MsgAliasName)))
               /\ pc' = Upd(pc, p, "done")
               /\ UNCHANGED <<requests, lastResp, logged, oldIndices>>
          ELSE /\ requests' = Upd(requests, p,
                     Append(requests[p], Req("getSettings", name[p] \o "*", <<>>)))
               /\ \E resp \in GetSettingsResponses(listing, exists, name[p]) :
                     LET older == OlderThan(resp.keys, creation_date, olderThanDate[p])
                     IN  /\ lastResp' = Upd(lastResp, p, resp)
                         /\ IF resp.error # NoError
                               THEN /\ result' = Upd(result, p, Raised(Rethrown(resp.error)))
                                    /\ logged' = Upd(logged, p, 1)
                                    /\ pc' = Upd(pc, p, "done")
                                    /\ UNCHANGED oldIndices
                               ELSE /\ oldIndices' = Upd(oldIndices, p, older)
                                    /\ UNCHANGED logged
                                    /\ IF NothingToClean(older)
                                          THEN /\ result' = Upd(result, p, Returned(<<>>))
                                               /\ pc' = Upd(pc, p, "done")
                                          ELSE /\ pc' = Upd(pc, p, "getAlias")
                                               /\ UNCHANGED result
    /\ UNCHANGED <<clusterVars, argVars, assocIndices, aliasedIndices,
                   pendingReqs, inflight>>

\* cleanupOldIndices, lines 326-343: the indices the sweep deletes, for the
\* minIndexesToKeep it was called with (which the code never reads). An
\* enforcing sweep would spare the newest minKeep of them.
SweepCandidatesKeeping(old, aliased, minKeep) ==
    SubSeq(IndicesToDelete(old, aliased), minKeep + 1,
           Len(IndicesToDelete(old, aliased)))

SweepCandidates(old, aliased, minKeep) == IndicesToDelete(old, aliased)

DeleteRequestsTwice(toDelete) ==
    [k \in 1..Len(toDelete) |-> Req("delete", toDelete[k], <<>>)]
    \o [k \in 1..Len(toDelete) |-> Req("delete", toDelete[k], <<>>)]

DeleteRequests(toDelete) == [k \in 1..Len(toDelete) |-> Req("delete", toDelete[k], <<>>)]

\* cleanupOldIndices, lines 339-353, up to the point where every delete
\* call has been issued
Cleanup_GetIndicesForAlias(p) ==
    /\ pc[p] = "getAlias"
    /\ op[p] = "cleanupOldIndices"
    /\ \E resp \in GetAliasResponses(listing, aliases[name[p]]) :
          LET r == GetIndicesForAliasResult(resp)
              indicesToDelete ==
                  SweepCandidates(oldIndices[p], r.value, minIndexesToKeep[p])
          IN  /\ lastResp' = Upd(lastResp, p, resp)
              /\ IF r.status = "err"
                    THEN /\ result' = Upd(result, p, Raised(Rethrown(r.error)))
                         /\ logged' = Upd(logged, p, 1)
                         /\ pc' = Upd(pc, p, "done")
                         /\ requests' = Upd(requests, p,
                               Append(requests[p], Req("getAlias", name[p], <<>>)))
                         /\ UNCHANGED <<aliasedIndices, inflight>>
                    ELSE /\ aliasedIndices' = Upd(aliasedIndices, p, r.value)
                         /\ requests' = Upd(requests, p,
                               Append(requests[p], Req("getAlias", name[p], <<>>))
                               \o DeleteRequests(indicesToDelete))
                         /\ inflight' = Upd(inflight, p, Range(indicesToDelete))
                         /\ UNCHANGED logged
                         /\ IF indicesToDelete = <<>>
                               THEN /\ result' = Upd(result, p, Returned(<<>>))
                                    /\ pc' = Upd(pc, p, "done")
                               ELSE /\ pc' = Upd(pc, p, "waitDeletes")
                                    /\ UNCHANGED result
    /\ UNCHANGED <<clusterVars, argVars, assocIndices, oldIndices, pendingReqs>>

DeleteErrors(idx) ==
    {ClusterError(500)} \cup (IF idx \in exists THEN {} ELSE {ClusterError(404)})

\* Promise.all, lines 347-353: the state of the combined promise res after
\* the call for idx, one of the calls in pending, settles with e (NoError
\* when it succeeds). It rejects with the first failure and resolves when
\* every call has succeeded.
PromiseAllIgnoringFailures(res, pending, idx, e) ==
    IF res.status # "pending" THEN res
    ELSE IF pending = {idx} THEN Returned(<<>>)
    ELSE Pending

PromiseAll(res, pending, idx, e) ==
    IF res.status # "pending" THEN res
    ELSE IF e # NoError THEN Raised(e)
    ELSE IF pending = {idx} THEN Returned(<<>>)
    ELSE Pending

\* deleteIndex, lines 82-93, for one of the calls cleanupOldIndices issued,
\* and the Promise.all of lines 347-353 it settles into
DeleteIndex_Settle(p, idx) ==
    /\ idx \in inflight[p]
    /\ inflight' = Upd(inflight, p, inflight[p] \ {idx})
    /\ \/ /\ idx \in exists
          /\ exists' = exists \ {idx}
          /\ aliases' = [a \in AliasNames |-> aliases[a] \ {idx}]
          /\ docs' = {d \in docs : d[1] # idx}
          /\ result' = Upd(result, p, PromiseAll(result[p], inflight[p], idx, NoError))
          /\ UNCHANGED logged
       \/ /\ \E e \in DeleteErrors(idx) :
                result' = Upd(result, p,
                    PromiseAll(result[p], inflight[p], idx, Rethrown(e)))
          /\ logged' = Upd(logged, p, logged[p] + 1)
          /\ UNCHANGED <<exists, aliases, docs>>
    /\ pc' = Upd(pc, p, IF result'[p].status = "pending" THEN pc[p] ELSE "done")
    /\ UNCHANGED <<creation_date, listing, loggerFails, argVars, assocIndices,
                   oldIndices,
                   aliasedIndices, pendingReqs, requests, lastResp>>

\* The caller has its result and every call of the invocation has settled.
Return(p) ==
    /\ pc[p] = "done"
    /\ inflight[p] = {}
    /\ op' = Upd(op, p, "idle")
    /\ pc' = Upd(pc, p, "idle")
    /\ name' = Upd(name, p, "")
    /\ indexName' = Upd(indexName, p, "")
    /\ addArg' = Upd(addArg, p, Undefined)
    /\ removeArg' = Upd(removeArg, p, Undefined)
    /\ olderThanDate' = Upd(olderThanDate, p, 0)
    /\ idDocArr' = Upd(idDocArr, p, <<>>)
    /\ minIndexesToKeep' = Upd(minIndexesToKeep, p, 0)
    /\ assocIndices' = Upd(assocIndices, p, <<>>)
    /\ oldIndices' = Upd(oldIndices, p, <<>>)
    /\ aliasedIndices' = Upd(aliasedIndices, p, <<>>)
    /\ pendingReqs' = Upd(pendingReqs, p, <<>>)
    /\ requests' = Upd(requests, p, <<>>)
    /\ lastResp' = Upd(lastResp, p, NoResponse)
    /\ result' = Upd(result, p, Pending)
    /\ logged' = Upd(logged, p, 0)
    /\ UNCHANGED <<clusterVars, inflight>>

\* ------------------------------------------------------------------------
\* Bulk ingestion
\* ------------------------------------------------------------------------

\* The two kinds of entry of a bulk body: { index: { _index, _id } } and
\* the document that follows it
BulkAction(index, id) == [kind |-> "index", _index |-> index, _id |-> id, source |-> ""]
BulkSource(doc) == [kind |-> "source", _index |-> "", _id |-> "", source |-> doc]

\* idDocArr.reduce((ac, c) => [...ac, {index: ...c[0]}, c[1]], []),
\* lines 284-291; a pair c is <<id, document>>
RECURSIVE BulkBody(_, _)
\* A body that lists every action header first and the documents after them.
BulkBodyHeadersFirst(index, arr) ==
    [k \in 1..Len(arr) |-> BulkAction(index, arr[k][1])]
    \o [k \in 1..Len(arr) |-> BulkSource(arr[k][2])]

BulkBody(index, arr) ==
    IF arr = <<>> THEN <<>>
    ELSE LET c == arr[Len(arr)]
         IN  BulkBody(index, SubSeq(arr, 1, Len(arr) - 1))
             \o <<BulkAction(index, c[1]), BulkSource(c[2])>>

\* One entry of the items of a bulk response: { <key>: { _id, result } } for
\* a document written, { <key>: { _id, error } } for a document rejected
BulkItem(key, id, res, error) == [key |-> key, _id |-> id, result |-> res, error |-> error]

RejectCause == "mapper_parsing_exception"

\* The cluster handles the index actions of a bulk body in order, from the
\* k-th on: a rejected one reports its error, one whose id is already
\* stored in the index updates the document, any other creates it.
RECURSIVE BulkItems(_, _, _, _)
BulkItems(body, stored, rejected, k) ==
    IF 2 * k > Len(body) THEN <<>>
    ELSE LET h == body[2 * k - 1]
             d == <<h._index, h._id>>
         IN  IF k \in rejected
                THEN <<BulkItem("index", h._id, "", RejectCause)>>
                     \o BulkItems(body, stored, rejected, k + 1)
                ELSE <<BulkItem("index", h._id,
                                IF d \in stored THEN "updated" ELSE "created", "")>>
                     \o BulkItems(body, stored \cup {d}, rejected, k + 1)

\* The documents stored once the cluster has handled the body
BulkStored(body, stored, rejected) ==
    stored \cup {<<body[2 * k - 1]._index, body[2 * k - 1]._id>> :
                    k \in (1..(Len(body) \div 2)) \ rejected}

Ids(items) == [k \in 1..Len(items) |-> items[k]._id]

\* res.items.filter(i => i.index).map(i => i.index), line 306
IsIndexItem(i) == i.key = "index"
IndexedItems(items) == SelectSeq(items, IsIndexItem)

\* lines 311-313
IsCreated(i) == i.result = "created"
IsUpdated(i) == i.result = "updated"
IsNotUpdated(i) == i.result # "updated"
HasError(i) == i.error # ""

BulkCreatedNotUpdated(indexed) == Ids(SelectSeq(indexed, IsNotUpdated))

BulkCreated(indexed) == Ids(SelectSeq(indexed, IsCreated))
BulkUpdated(indexed) == Ids(SelectSeq(indexed, IsUpdated))
BulkErrors(indexed) ==
    [k \in 1..Len(SelectSeq(indexed, HasError)) |->
        [id |-> SelectSeq(indexed, HasError)[k]._id,
         error |-> SelectSeq(indexed, HasError)[k].error]]

\* methodResponse, lines 310-314
MethodResponse(items) ==
    [created |-> BulkCreated(IndexedItems(items)),
     updated |-> BulkUpdated(IndexedItems(items)),
     errors |-> BulkErrors(IndexedItems(items))]

\* indexDocumentBulk, lines 294-316: what the caller gets for the answer resp
BulkResultStrict(resp) ==
    IF resp.error # NoError THEN Raised(resp.error)
    ELSE IF BulkErrors(IndexedItems(resp.keys)) # <<>> THEN Raised(ClusterError(400))
    ELSE Returned(MethodResponse(resp.keys))

BulkResult(resp) ==
    IF resp.error # NoError THEN Raised(resp.error)
    ELSE Returned(MethodResponse(resp.keys))

\* The answers the cluster can give to a bulk request: a failure of the
\* request as a whole (the only answer to an empty body), or one item per
\* index action, any of them rejected
BulkResponses(body, stored) ==
    {[resp |-> Response(ClusterError(IF body = <<>> THEN 400 ELSE 500), <<>>),
      stored |-> stored]}
    \cup (IF body = <<>> THEN {}
          ELSE {[resp |-> Response(NoError, BulkItems(body, stored, rejected, 1)),
                 stored |-> BulkStored(body, stored, rejected)] :
                   rejected \in SUBSET (1..(Len(body) \div 2))})

\* The cluster creates an index that a document is written to and that
\* does not exist, and dates it as its newest.
ExistsWith(stored) == exists \cup {d[1] : d \in stored}
DatesWith(stored) ==
    [i \in DOMAIN creation_date \cup ExistsWith(stored) |->
        IF i \in exists THEN creation_date[i] ELSE MaxDate]
ListingWith(stored) ==
    LET new == CHOOSE q \in Perms(ExistsWith(stored) \ Range(listing)) : TRUE
    IN  listing \o new

\* indexDocumentBulk, lines 276-291: the body is built before the request
StartIndexDocumentBulk(p, index, arr) ==
    /\ pc[p] = "idle"
    /\ op' = Upd(op, p, "indexDocumentBulk")
    /\ indexName' = Upd(indexName, p, index)
    /\ idDocArr' = Upd(idDocArr, p, arr)
    /\ pendingReqs' = Upd(pendingReqs, p, <<BulkBody(index, arr)>>)
    /\ pc' = Upd(pc, p, "bulk")
    /\ UNCHANGED <<clusterVars, name, addArg, removeArg, olderThanDate,
                   minIndexesToKeep, assocIndices, oldIndices, aliasedIndices,
                   inflight, requests, lastResp, result, logged>>

\* indexDocumentBulk, lines 293-316: the bulk request and its answer
IndexDocumentBulk_Call(p) ==
    /\ pc[p] = "bulk"
    /\ LET body == Head(pendingReqs[p])
       IN  /\ requests' = Upd(requests, p, Append(requests[p], Req("bulk", "", body)))
           /\ \E r \in BulkResponses(body, docs) :
                 /\ docs' = r.stored
                 /\ exists' = ExistsWith(r.stored)
                 /\ creation_date' = DatesWith(r.stored)
                 /\ listing' = ListingWith(r.stored)
                 /\ lastResp' = Upd(lastResp, p, r.resp)
                 /\ result' = Upd(result, p, RethrownResult(BulkResult(r.resp)))
                 /\ logged' = Upd(logged, p, IF r.resp.error # NoError THEN 1 ELSE 0)
    /\ pendingReqs' = Upd(pendingReqs, p, <<>>)
    /\ pc' = Upd(pc, p, "done")
    /\ UNCHANGED <<aliases, loggerFails, argVars, assocIndices, oldIndices,
                   aliasedIndices, inflight>>

\* ------------------------------------------------------------------------
\* Index creation and optimisation
\* ------------------------------------------------------------------------
Digit(n) ==
    CASE n = 0 -> "0" [] n = 1 -> "1" [] n = 2 -> "2" [] n = 3 -> "3" [] n = 4 -> "4"
      [] n = 5 -> "5" [] n = 6 -> "6" [] n = 7 -> "7" [] n = 8 -> "8" [] n = 9 -> "9"

TwoDigits(n) == Digit((n \div 10) % 10) \o Digit(n % 10)

\* The format YYYYMMDDHHmmss, with nothing between the date and the time.
FormatMomentCompact(now) ==
    "20240101" \o TwoDigits((now \div 3600) % 24)
               \o TwoDigits((now \div 60) % 60) \o TwoDigits(now % 60)

\* now.format("YYYYMMDD_HHmmss"), line 53, for the instant now seconds into
\* the first of January 2024
FormatMoment(now) ==
    "20240101" \o "_" \o TwoDigits((now \div 3600) % 24)
               \o TwoDigits((now \div 60) % 60) \o TwoDigits(now % 60)

\* `${name}_${timestamp}`, line 54
TimestampedName(prefix, now) == prefix \o "_" \o FormatMoment(now)

\* Objects are sequences of key/value entries with distinct keys.
Entry(key, value) == [key |-> key, value |-> value]
HasKey(obj, key) == \E k \in 1..Len(obj) : obj[k].key = key
ValueOf(obj, key) == obj[CHOOSE k \in 1..Len(obj) : obj[k].key = key].value

\* { ...a, ...b }: the keys of a in their order, with the values b gives
\* them, then the other keys of b
Spread(a, b) ==
    LET NotInA(e) == ~HasKey(a, e.key)
    IN  [k \in 1..Len(a) |->
            IF HasKey(b, a[k].key) THEN Entry(a[k].key, ValueOf(b, a[k].key)) ELSE a[k]]
        \o SelectSeq(b, NotInA)

\* body of the create request, lines 28-31
CreateBody(mappings, settings) == Spread(settings, mappings)

\* A failure without an HTTP status: the connection fails or the client
\* gives up after requestTimeout.
TransportError == [status |-> 0, message |-> "transport"]

CreateErrors(idx) ==
    {ClusterError(500)} \cup (IF idx \in exists THEN {ClusterError(400)} ELSE {})

\* what createIndex (undefined) and createTimestampedIndex (the name,
\* line 56) hand to the caller when the create request ends with e
CreateResultSwallowing(operation, idx, e) ==
    IF operation = "createTimestampedIndex" THEN Returned(idx) ELSE Returned(<<>>)

CreateResult(operation, idx, e) ==
    IF e # NoError THEN Raised(e)
    ELSE IF operation = "createTimestampedIndex" THEN Returned(idx)
    ELSE Returned(<<>>)

\* createTimestampedIndex, lines 51-55: the name is made before the request
StartCreateTimestampedIndex(p, prefix, now, mappings, settings) ==
    /\ pc[p] = "idle"
    /\ op' = Upd(op, p, "createTimestampedIndex")
    /\ name' = Upd(name, p, prefix)
    /\ indexName' = Upd(indexName, p, TimestampedName(prefix, now))
    /\ pendingReqs' = Upd(pendingReqs, p, <<CreateBody(mappings, settings)>>)
    /\ pc' = Upd(pc, p, "create")
    /\ UNCHANGED <<clusterVars, addArg, removeArg, olderThanDate, idDocArr, minIndexesToKeep,
                   assocIndices, oldIndices, aliasedIndices, inflight, requests,
                   lastResp, result, logged>>

\* createIndex called directly, lines 24-31
StartCreateIndex(p, idx, mappings, settings) ==
    /\ pc[p] = "idle"
    /\ op' = Upd(op, p, "createIndex")
    /\ indexName' = Upd(indexName, p, idx)
    /\ pendingReqs' = Upd(pendingReqs, p, <<CreateBody(mappings, settings)>>)
    /\ pc' = Upd(pc, p, "create")
    /\ UNCHANGED <<clusterVars, name, addArg, removeArg, olderThanDate, idDocArr, minIndexesToKeep,
                   assocIndices, oldIndices, aliasedIndices, inflight, requests,
                   lastResp, result, logged>>

\* createIndex, lines 26-37, and the return of createTimestampedIndex,
\* line 56. The cluster dates the new index as its newest.
CreateIndex_Call(p) ==
    /\ pc[p] = "create"
    /\ requests' = Upd(requests, p,
           Append(requests[p], Req("create", indexName[p], Head(pendingReqs[p]))))
    /\ \/ /\ indexName[p] \notin exists
          /\ exists' = exists \cup {indexName[p]}
          /\ creation_date' = [i \in DOMAIN creation_date \cup {indexName[p]} |->
                                  IF i = indexName[p] THEN MaxDate ELSE creation_date[i]]
          /\ listing' = IF indexName[p] \in Range(listing) THEN listing
                         ELSE Append(listing, indexName[p])
          /\ lastResp' = Upd(lastResp, p, Response(NoError, <<>>))
          /\ result' = Upd(result, p, CreateResult(op[p], indexName[p], NoError))
          /\ UNCHANGED logged
       \/ /\ \E e \in CreateErrors(indexName[p]) :
                /\ lastResp' = Upd(lastResp, p, Response(e, <<>>))
                /\ result' = Upd(result, p,
                       RethrownResult(CreateResult(op[p], indexName[p], e)))
          /\ logged' = Upd(logged, p, 1)
          /\ UNCHANGED <<exists, creation_date, listing>>
    /\ pendingReqs' = Upd(pendingReqs, p, <<>>)
    /\ pc' = Upd(pc, p, "done")
    /\ UNCHANGED <<aliases, docs, loggerFails, argVars, assocIndices, oldIndices,
                   aliasedIndices, inflight>>

\* err.statusCode !== 504, line 72
ShouldLogMergeErrorAlways(err) == TRUE

ShouldLogMergeError(err) == err.status # 504

\* The answers to a force-merge request
ForcemergeAnswers(idx) ==
    {ClusterError(504), ClusterError(500), TransportError}
    \cup (IF idx \in exists THEN {NoError} ELSE {ClusterError(404)})

StartOptimizeIndex(p, idx) ==
    /\ pc[p] = "idle"
    /\ op' = Upd(op, p, "optimizeIndex")
    /\ indexName' = Upd(indexName, p, idx)
    /\ pc' = Upd(pc, p, "forcemerge")
    /\ UNCHANGED <<clusterVars, name, addArg, removeArg, olderThanDate, idDocArr, minIndexesToKeep,
                   localVars>>

\* optimizeIndex, lines 63-76
OptimizeIndex_Call(p) ==
    /\ pc[p] = "forcemerge"
    /\ requests' = Upd(requests, p,
           Append(requests[p], Req("forcemerge", indexName[p], <<>>)))
    /\ \E e \in ForcemergeAnswers(indexName[p]) :
          /\ lastResp' = Upd(lastResp, p, Response(e, <<>>))
          /\ logged' = Upd(logged, p,
                 IF e # NoError /\ ShouldLogMergeError(e) THEN 1 ELSE 0)
          /\ result' = Upd(result, p,
                 IF e # NoError /\ ShouldLogMergeError(e) /\ loggerFails
                    THEN Raised(LoggerError) ELSE Returned(<<>>))
    /\ pc' = Upd(pc, p, "done")
    /\ UNCHANGED <<clusterVars, argVars, assocIndices, oldIndices, aliasedIndices,
                   pendingReqs, inflight>>

\* ------------------------------------------------------------------------
\* Single documents and direct deletion
\* ------------------------------------------------------------------------

\* indexDocument, lines 240-246
StartIndexDocument(p, index, id, document) ==
    /\ pc[p] = "idle"
    /\ op' = Upd(op, p, "indexDocument")
    /\ indexName' = Upd(indexName, p, index)
    /\ idDocArr' = Upd(idDocArr, p, <<<<id, document>>>>)
    /\ pc' = Upd(pc, p, "index")
    /\ UNCHANGED <<clusterVars, name, addArg, removeArg, olderThanDate,
                   minIndexesToKeep, localVars>>

\* indexDocument, lines 241-250: the index request and its outcome
IndexDocument_Call(p) ==
    /\ pc[p] = "index"
    /\ requests' = Upd(requests, p,
           Append(requests[p],
                  Req("index", indexName[p],
                      <<BulkAction(indexName[p], idDocArr[p][1][1]),
                        BulkSource(idDocArr[p][1][2])>>)))
    /\ \/ /\ docs' = docs \cup {<<indexName[p], idDocArr[p][1][1]>>}
          /\ exists' = ExistsWith({<<indexName[p], idDocArr[p][1][1]>>})
          /\ creation_date' = DatesWith({<<indexName[p], idDocArr[p][1][1]>>})
          /\ listing' = ListingWith({<<indexName[p], idDocArr[p][1][1]>>})
          /\ lastResp' = Upd(lastResp, p, Response(NoError, <<>>))
          /\ result' = Upd(result, p, Returned(<<>>))
          /\ UNCHANGED logged
       \/ /\ lastResp' = Upd(lastResp, p, Response(ClusterError(500), <<>>))
          /\ result' = Upd(result, p, Raised(Rethrown(ClusterError(500))))
          /\ logged' = Upd(logged, p, 1)
          /\ UNCHANGED <<docs, exists, creation_date, listing>>
    /\ pc' = Upd(pc, p, "done")
    /\ UNCHANGED <<aliases, loggerFails, argVars, assocIndices, oldIndices,
                   aliasedIndices, pendingReqs, inflight>>

\* deleteIndex called directly, lines 82-86: the delete request is issued
\* and settles in DeleteIndex_Settle
StartDeleteIndex(p, idx) ==
    /\ pc[p] = "idle"
    /\ op' = Upd(op, p, "deleteIndex")
    /\ indexName' = Upd(indexName, p, idx)
    /\ requests' = Upd(requests, p, DeleteRequests(<<idx>>))
    /\ inflight' = Upd(inflight, p, {idx})
    /\ pc' = Upd(pc, p, "waitDeletes")
    /\ UNCHANGED <<clusterVars, name, addArg, removeArg, olderThanDate, idDocArr,
                   minIndexesToKeep, assocIndices, oldIndices, aliasedIndices,
                   pendingReqs, lastResp, result, logged>>

\* ------------------------------------------------------------------------
\* Specifications
\* ------------------------------------------------------------------------
PrefixArgs == {AliasName, "", AbsentName}

\* The prefixes the concurrent sweeps are called with
SweepPrefixes == {AliasName, ""}

\* The invocations that run the retention sweep
Sweepers == {"p1"}

\* The alias-swap and retention protocol under concurrent invocations.
Next ==
    \/ \E p \in Procs, idx \in AppIndices : StartSetAliasToSingleIndex(p, idx)
    \/ \E p \in Sweepers, prefix \in SweepPrefixes, now \in Nows, d \in DaysToKeep :
          StartCleanupOldIndices(p, prefix, now, d, 1)
    \/ \E p \in Procs : SetAlias_GetIndices(p)
    \/ \E p \in Procs : UpdateAliases_Send(p)
    \/ \E p \in Procs : Cleanup_GetIndicesOlderThan(p)
    \/ \E p \in Procs : Cleanup_GetIndicesForAlias(p)
    \/ \E p \in Procs, idx \in AllIndices : DeleteIndex_Settle(p, idx)
    \/ \E p \in Procs : Return(p)

Spec == Init /\ [][Next]_vars

\* Direct calls of the two queries by one caller, on a cluster that lists
\* its indices in any order and whose indices have any creation dates.
Callers == {"p1"}
DatetimeArgs == 0..(MaxDate + 1)

InitQueries ==
    /\ exists = AllIndices
    /\ creation_date \in InitDates
    /\ aliases \in AliasBindings(AppIndices)
    /\ listing \in {s \o <<"string", "web_1">> : s \in Perms(AppIndices)}
    /\ docs = {}
    /\ loggerFails = FALSE
    /\ InitProcs

NextQueries ==
    \/ \E p \in Callers : StartGetIndicesForAlias(p)
    \/ \E p \in Callers, prefix \in PrefixArgs, dt \in DatetimeArgs :
          StartGetIndicesOlderThan(p, prefix, dt)
    \/ \E p \in Callers : GetIndicesForAlias_Call(p)
    \/ \E p \in Callers : GetIndicesOlderThan_Call(p)
    \/ \E p \in Callers : Return(p)

SpecQueries == InitQueries /\ [][NextQueries]_vars

\* Direct calls of updateAlias with every shape of argument.
JsArgs ==
    {Undefined, Null, Num(0), Num(1), Str(""), Str("app_1"), Str("string"),
     Arr(<<>>), Arr(<<"app_1">>), Arr(<<"app_2", "app_3">>)}

InitUpdateAlias ==
    /\ exists = AllIndices
    /\ creation_date = [i \in AllIndices |-> 0]
    /\ aliases \in AliasBindings(AppIndices)
    /\ listing = NameOrder
    /\ docs = {}
    /\ loggerFails = FALSE
    /\ InitProcs

NextUpdateAlias ==
    \/ \E p \in Callers, add \in JsArgs, remove \in JsArgs :
          StartUpdateAlias(p, add, remove)
    \/ \E p \in Callers : UpdateAliases_Send(p)
    \/ \E p \in Callers : Return(p)

SpecUpdateAlias == InitUpdateAlias /\ [][NextUpdateAlias]_vars

\* The retention sweep and the older-than query run by one caller at a time.
MinIndexesArgs == {1, 3}

NextSweep ==
    \/ \E p \in Callers, prefix \in PrefixArgs, now \in Nows, d \in DaysToKeep,
          m \in MinIndexesArgs :
          StartCleanupOldIndices(p, prefix, now, d, m)
    \/ \E p \in Callers, prefix \in PrefixArgs, dt \in DatetimeArgs :
          StartGetIndicesOlderThan(p, prefix, dt)
    \/ \E p \in Callers : GetIndicesOlderThan_Call(p)
    \/ \E p \in Callers : Cleanup_GetIndicesOlderThan(p)
    \/ \E p \in Callers : Cleanup_GetIndicesForAlias(p)
    \/ \E p \in Callers, idx \in AllIndices : DeleteIndex_Settle(p, idx)
    \/ \E p \in Callers : Return(p)

SpecSweep == Init /\ [][NextSweep]_vars

\* The retention sweep on a cluster where a second alias, named differently
\* from the prefix, is bound to indices of the prefix.
InitShared ==
    /\ exists = AllIndices
    /\ creation_date \in ChronologicalDates
    /\ aliases \in [AliasNames -> SUBSET AppIndices]
    /\ listing = NameOrder
    /\ docs = {}
    /\ loggerFails = FALSE
    /\ InitProcs

SpecShared == InitShared /\ [][NextSweep]_vars

\* The alias swap run by one caller at a time, on a cluster where the index
\* app_3 may not exist.
InitSwap ==
    /\ exists \in {AllIndices, AllIndices \ {"app_3"}}
    /\ creation_date = [i \in AllIndices |-> 0]
    /\ aliases \in AliasBindings(AppIndices \cap exists)
    /\ listing = NameOrder
    /\ docs = {}
    /\ loggerFails = FALSE
    /\ InitProcs

NextSwap ==
    \/ \E p \in Callers, idx \in AppIndices : StartSetAliasToSingleIndex(p, idx)
    \/ \E p \in Callers : SetAlias_GetIndices(p)
    \/ \E p \in Callers : UpdateAliases_Send(p)
    \/ \E p \in Callers : Return(p)

SpecSwap == InitSwap /\ [][NextSwap]_vars

\* Bulk ingestion into one index by one caller at a time.
MaxDocs == 2
DocIds == {"d1", "d2"}
Documents == {"a", "b"}
RECURSIVE SeqsUpTo(_, _)
SeqsUpTo(S, n) ==
    IF n = 0 THEN {<<>>}
    ELSE SeqsUpTo(S, n - 1)
         \cup {Append(q, x) : q \in {r \in SeqsUpTo(S, n - 1) : Len(r) = n - 1}, x \in S}
IdDocArrs == SeqsUpTo(DocIds \X Documents, MaxDocs)
BulkIndex == "app_1"

InitBulk ==
    /\ exists = AllIndices
    /\ creation_date = [i \in AllIndices |-> 0]
    /\ aliases = [a \in AliasNames |-> {}]
    /\ listing = NameOrder
    /\ docs \in SUBSET ({BulkIndex} \X DocIds)
    /\ loggerFails = FALSE
    /\ InitProcs

NextBulk ==
    \/ \E p \in Callers, arr \in IdDocArrs : StartIndexDocumentBulk(p, BulkIndex, arr)
    \/ \E p \in Callers : IndexDocumentBulk_Call(p)
    \/ \E p \in Callers : Return(p)

SpecBulk == InitBulk /\ [][NextBulk]_vars

\* Creation and optimisation of indices by one caller at a time.
MappingsArgs ==
    {<<Entry("mappings", "m")>>, <<Entry("settings", "m"), Entry("mappings", "m")>>}
SettingsArgs == {<<Entry("settings", "s")>>}
MissingIndex == "app_9"
IndexArgs == {"app_1", MissingIndex}

\* The instants at which createTimestampedIndex reads the clock, in seconds
\* of the day: its first seconds, one past the first hour and its last.
Instants == {0, 2, 3661, 86399}

InitIndex ==
    /\ exists = AllIndices
    /\ creation_date = [i \in AllIndices |-> 0]
    /\ aliases = [a \in AliasNames |-> {}]
    /\ listing = NameOrder
    /\ docs = {}
    /\ loggerFails = FALSE
    /\ InitProcs

NextIndex ==
    \/ \E p \in Callers, now \in Instants, m \in MappingsArgs, st \in SettingsArgs :
          StartCreateTimestampedIndex(p, AliasName, now, m, st)
    \/ \E p \in Callers, idx \in IndexArgs, m \in MappingsArgs, st \in SettingsArgs :
          StartCreateIndex(p, idx, m, st)
    \/ \E p \in Callers, idx \in IndexArgs : StartOptimizeIndex(p, idx)
    \/ \E p \in Callers : CreateIndex_Call(p)
    \/ \E p \in Callers : OptimizeIndex_Call(p)
    \/ \E p \in Callers : Return(p)

SpecIndex == InitIndex /\ [][NextIndex]_vars

\* Every operation, called by one caller at a time.
OnceUpdateArgs == {Undefined, Str("app_1"), Arr(<<"app_2", "app_3">>)}
OnceDocArrs == {<<>>, <<<<"d1", "a">>>>, <<<<"d1", "a">>, <<"d1", "b">>>>}

NextOnce ==
    \/ \E p \in Callers, idx \in AppIndices : StartSetAliasToSingleIndex(p, idx)
    \/ \E p \in Callers, now \in Nows, d \in DaysToKeep :
          StartCleanupOldIndices(p, AliasName, now, d, 1)
    \/ \E p \in Callers : StartGetIndicesForAlias(p)
    \/ \E p \in Callers, dt \in DatetimeArgs : StartGetIndicesOlderThan(p, AliasName, dt)
    \/ \E p \in Callers, add \in OnceUpdateArgs, remove \in OnceUpdateArgs :
          StartUpdateAlias(p, add, remove)
    \/ \E p \in Callers, idx \in IndexArgs, m \in MappingsArgs, st \in SettingsArgs :
          StartCreateIndex(p, idx, m, st)
    \/ \E p \in Callers, idx \in IndexArgs : StartOptimizeIndex(p, idx)
    \/ \E p \in Callers, idx \in IndexArgs : StartDeleteIndex(p, idx)
    \/ \E p \in Callers, id \in DocIds, d \in Documents :
          StartIndexDocument(p, BulkIndex, id, d)
    \/ \E p \in Callers, arr \in OnceDocArrs : StartIndexDocumentBulk(p, BulkIndex, arr)
    \/ \E p \in Callers : SetAlias_GetIndices(p)
    \/ \E p \in Callers : UpdateAliases_Send(p)
    \/ \E p \in Callers : GetIndicesForAlias_Call(p)
    \/ \E p \in Callers : GetIndicesOlderThan_Call(p)
    \/ \E p \in Callers : Cleanup_GetIndicesOlderThan(p)
    \/ \E p \in Callers : Cleanup_GetIndicesForAlias(p)
    \/ \E p \in Callers, idx \in AllIndices \cup IndexArgs : DeleteIndex_Settle(p, idx)
    \/ \E p \in Callers : CreateIndex_Call(p)
    \/ \E p \in Callers : OptimizeIndex_Call(p)
    \/ \E p \in Callers : IndexDocument_Call(p)
    \/ \E p \in Callers : IndexDocumentBulk_Call(p)
    \/ \E p \in Callers : Return(p)

SpecOnce == InitIndex /\ [][NextOnce]_vars

\* Every operation called by one caller, with a logger that works or a
\* logger whose error method throws.
InitLogger ==
    /\ exists = AllIndices
    /\ creation_date = [i \in AllIndices |-> 0]
    /\ aliases = [a \in AliasNames |-> {}]
    /\ listing = NameOrder
    /\ docs = {}
    /\ loggerFails \in BOOLEAN
    /\ InitProcs

SpecLogger == InitLogger /\ [][NextOnce]_vars

TypeOK ==
    /\ exists \subseteq DOMAIN creation_date
    /\ \A a \in AliasNames : aliases[a] \subseteq exists
    /\ \A d \in docs : d[1] \in exists
    /\ \A p \in Procs : pc[p] \in {"idle", "getAlias", "sendUpdate", "getSettings",
                                   "waitDeletes", "bulk", "create", "forcemerge", "index",
                                   "done"}

\* ------------------------------------------------------------------------
\* The alias swap
\* ------------------------------------------------------------------------
IsDelete(r) == r.api = "delete"
DeleteTargets(p) == {requests[p][k].target : k \in {j \in 1..Len(requests[p]) : IsDelete(requests[p][j])}}

\* The step by which invocation p gets the answer to its alias-update request
SwapApplied(p) ==
    /\ op[p] = "setAliasToSingleIndex"
    /\ pc[p] = "sendUpdate"
    /\ requests'[p] # requests[p]

\* C1: when setAliasToSingleIndex(alias, X) succeeds and no other writer has
\* changed the alias since the call read it, the alias is bound to exactly
\* {X} and getIndicesForAlias(alias) answers [X], whatever the alias was
\* bound to before.
C1_SwapBindsExactlyTarget ==
    [][\A p \in Procs :
          (/\ SwapApplied(p)
           /\ pc'[p] = "done"
           /\ result'[p].status = "ok"
           /\ Range(assocIndices[p]) = aliases[name[p]])
          => /\ aliases'[name[p]] = {indexName[p]}
             /\ \A resp \in GetAliasResponses(listing', aliases'[name[p]]) :
                   resp.error = NoError
                   => GetIndicesForAliasResult(resp) = Returned(<<indexName[p]>>)]_vars

C1_Witness ==
    \E p \in Procs :
        /\ op[p] = "setAliasToSingleIndex"
        /\ pc[p] = "done"
        /\ result[p].status = "ok"
        /\ Len(assocIndices[p]) >= 2
        /\ indexName[p] \notin Range(assocIndices[p])
        /\ aliases[name[p]] = {indexName[p]}

\* C2: a setAliasToSingleIndex(alias, new) that read the alias as bound to
\* exactly {old} moves it from {old} to {old} or to {new} in each of its
\* steps: no state in between has the alias bound to nothing or to both.
C2_SwapIsOneTransition ==
    [][\A p \in Procs :
          (/\ SwapApplied(p)
           /\ Cardinality(aliases[name[p]]) = 1
           /\ Range(assocIndices[p]) = aliases[name[p]])
          => \/ aliases'[name[p]] = aliases[name[p]]
             \/ aliases'[name[p]] = {indexName[p]}]_vars

C2_Witness ==
    \E p \in Procs :
        /\ op[p] = "setAliasToSingleIndex"
        /\ pc[p] = "done"
        /\ result[p].status = "ok"
        /\ Len(assocIndices[p]) = 1
        /\ assocIndices[p][1] # indexName[p]
        /\ Len(requests[p]) = 2
        /\ aliases[name[p]] = {indexName[p]}

\* C10: when the alias query answers 404 or reports the target as the only
\* binding, setAliasToSingleIndex issues one alias query and then one
\* alias-update request whose only action is the add of the target, and it
\* fails only if the cluster rejects that request.
C10_AddWithoutRemove ==
    \A p \in Procs :
        (/\ op[p] = "setAliasToSingleIndex"
         /\ pc[p] = "done"
         /\ \/ lastResp[p].error.status = 404
            \/ lastResp[p].error = NoError /\ Range(lastResp[p].keys) = {indexName[p]})
        => /\ Len(requests[p]) = 2
           /\ requests[p][1] = Req("getAlias", name[p], <<>>)
           /\ requests[p][2].api = "updateAliases"
           /\ Len(requests[p][2].actions) = 1
           /\ requests[p][2].actions[1].type = "add"
           /\ requests[p][2].actions[1].alias = name[p]
           /\ ActionIndices(requests[p][2].actions[1]) = {indexName[p]}
           /\ \/ result[p].status = "ok"
              \/ result[p].status = "err" /\ result[p].error \in {ClusterError(404), ClusterError(500)}

C10_Witness ==
    \E p \in Procs :
        /\ op[p] = "setAliasToSingleIndex"
        /\ pc[p] = "done"
        /\ lastResp[p].error.status = 404
        /\ result[p].status = "ok"
        /\ Len(requests[p]) = 2
        /\ aliases[name[p]] = {indexName[p]}

\* ------------------------------------------------------------------------
\* The retention sweep
\* ------------------------------------------------------------------------

\* C3: cleanupOldIndices issues no delete for an index that its alias query
\* reported as bound, old or not.
C3_ReportedBoundNotDeleted ==
    \A p \in Procs :
        op[p] = "cleanupOldIndices"
        => DeleteTargets(p) \cap Range(aliasedIndices[p]) = {}

C3_Witness ==
    \E p \in Procs :
        /\ op[p] = "cleanupOldIndices"
        /\ DeleteTargets(p) # {}
        /\ \E idx \in Range(aliasedIndices[p]) :
              /\ idx \in Range(oldIndices[p])
              /\ creation_date[idx] < olderThanDate[p]

\* C4: no index is deleted while the alias references it, in any
\* interleaving of cleanupOldIndices with setAliasToSingleIndex.
C4_NoIndexDeletedWhileBound ==
    [][\A idx \in exists \ exists' : \A a \in AliasNames : idx \notin aliases[a]]_vars

\* C5: an index whose creation_date is not below the cutoff is neither
\* returned to cleanupOldIndices by getIndicesOlderThan nor deleted by it.
C5_OnlyOlderThanCutoff ==
    \A p \in Procs :
        op[p] = "cleanupOldIndices"
        => /\ \A idx \in Range(oldIndices[p]) : creation_date[idx] < olderThanDate[p]
           /\ \A idx \in DeleteTargets(p) : creation_date[idx] < olderThanDate[p]

C5_Witness ==
    \E p \in Procs :
        /\ op[p] = "cleanupOldIndices"
        /\ DeleteTargets(p) # {}
        /\ \E idx \in exists :
              /\ StartsWith(idx, name[p])
              /\ creation_date[idx] = olderThanDate[p]
              /\ idx \notin Range(oldIndices[p])

\* ------------------------------------------------------------------------
\* updateAlias called directly
\* ------------------------------------------------------------------------
ArgErrors == {ArgError(MsgAdd), ArgError(MsgRemove), ArgError(MsgNone)}

OmittedOrEmpty(v) == v.t \in {"undefined", "null"} \/ v = Str("") \/ v = Arr(<<>>)
NeitherStringNorSequence(v) == v.t = "number"
NonEmptyList(v) == (v.t = "string" /\ v.s # "") \/ (v.t = "array" /\ v.a # <<>>)

RejectedWithoutRequest(p) ==
    /\ pc[p] = "done"
    /\ result[p].status = "err"
    /\ result[p].error \in ArgErrors
    /\ requests[p] = <<>>
    /\ pendingReqs[p] = <<>>

\* C6 as stated: updateAlias rejects, without a request, when add and remove
\* are both omitted or empty and when either is neither a string nor a
\* sequence.
C6_RejectsEveryOtherShape ==
    \A p \in Procs :
        (/\ op[p] = "updateAlias"
         /\ \/ OmittedOrEmpty(addArg[p]) /\ OmittedOrEmpty(removeArg[p])
            \/ NeitherStringNorSequence(addArg[p])
            \/ NeitherStringNorSequence(removeArg[p]))
        => RejectedWithoutRequest(p)

\* C6, amended: updateAlias rejects, without a request, when add and remove
\* are both omitted, empty or falsy, and when either is a truthy value that
\* is neither a string nor a sequence; a falsy value such as 0 counts as
\* omitted.
C6_RejectsTruthyOtherShape ==
    \A p \in Procs :
        (/\ op[p] = "updateAlias"
         /\ \/ /\ OmittedOrEmpty(addArg[p]) \/ addArg[p] = Num(0)
               /\ OmittedOrEmpty(removeArg[p]) \/ removeArg[p] = Num(0)
            \/ NeitherStringNorSequence(addArg[p]) /\ addArg[p].n # 0
            \/ NeitherStringNorSequence(removeArg[p]) /\ removeArg[p].n # 0)
        => RejectedWithoutRequest(p)

C6_Witness ==
    \E p \in Procs :
        /\ op[p] = "updateAlias"
        /\ addArg[p] = Num(1)
        /\ NonEmptyList(removeArg[p])
        /\ RejectedWithoutRequest(p)
        /\ result[p].error = ArgError(MsgAdd)

ActionsOfType(actions, type) == {k \in 1..Len(actions) : actions[k].type = type}

\* C7: an updateAlias call that passes validation submits exactly one
\* alias-update request; its action list holds at most one add and at most
\* one remove, the add first, and an action is there exactly when the
\* index list given for it is not empty.
C7_OneRequestAddBeforeRemove ==
    \A p \in Procs :
        (/\ op[p] = "updateAlias"
         /\ pc[p] = "done"
         /\ result[p].error \notin ArgErrors)
        => /\ Len(requests[p]) = 1
           /\ requests[p][1].api = "updateAliases"
           /\ LET actions == requests[p][1].actions
                  adds == ActionsOfType(actions, "add")
                  removes == ActionsOfType(actions, "remove")
              IN  /\ Cardinality(adds) <= 1
                  /\ Cardinality(removes) <= 1
                  /\ Len(actions) = Cardinality(adds) + Cardinality(removes)
                  /\ \A a \in adds, r \in removes : a < r
                  /\ adds # {} <=> NonEmptyList(addArg[p])
                  /\ removes # {} <=> NonEmptyList(removeArg[p])

C7_Witness ==
    \E p \in Procs :
        /\ op[p] = "updateAlias"
        /\ pc[p] = "done"
        /\ result[p].status = "ok"
        /\ Len(requests[p]) = 1
        /\ Len(requests[p][1].actions) = 2
        /\ requests[p][1].actions[1].type = "add"

\* ------------------------------------------------------------------------
\* The queries called directly
\* ------------------------------------------------------------------------
OlderMatching(p) ==
    {idx \in exists : StartsWith(idx, name[p]) /\ creation_date[idx] < olderThanDate[p]}

OlderReturned(p) ==
    /\ op[p] = "getIndicesOlderThan"
    /\ pc[p] = "done"
    /\ result[p].status = "ok"

\* C8 as stated: getIndicesOlderThan returns exactly the indices matching
\* prefix* with creation_date below the cutoff, each once, in strictly
\* descending order of creation date.
C8_StrictlyDescending ==
    \A p \in Procs :
        OlderReturned(p)
        => LET v == result[p].value
           IN  /\ Range(v) = OlderMatching(p)
               /\ Len(v) = Cardinality(Range(v))
               /\ \A j, k \in 1..Len(v) :
                     j < k => creation_date[v[j]] > creation_date[v[k]]

\* C8, amended: getIndicesOlderThan returns exactly the indices matching
\* prefix* with creation_date below the cutoff, each once, in descending
\* order of creation date: no index comes before a newer one, and indices
\* with equal creation dates are adjacent.
C8_Descending ==
    \A p \in Procs :
        OlderReturned(p)
        => LET v == result[p].value
           IN  /\ Range(v) = OlderMatching(p)
               /\ Len(v) = Cardinality(Range(v))
               /\ \A j, k \in 1..Len(v) :
                     j < k => creation_date[v[j]] >= creation_date[v[k]]

Position(seq, x) == CHOOSE k \in 1..Len(seq) : seq[k] = x

C8_Witness ==
    \E p \in Procs :
        /\ OlderReturned(p)
        /\ Len(result[p].value) >= 2
        /\ creation_date[result[p].value[1]] > creation_date[result[p].value[2]]
        /\ Position(listing, result[p].value[1]) > Position(listing, result[p].value[2])
        /\ \E idx \in exists : StartsWith(idx, name[p]) /\ idx \notin Range(result[p].value)

\* C9: getIndicesForAlias returns the empty sequence, without raising, when
\* the cluster answers 404; it raises the cluster's error for any other
\* failure; on success it returns exactly the indices bound to the alias.
C9_NotFoundIsEmpty ==
    \A p \in Procs :
        (op[p] = "getIndicesForAlias" /\ pc[p] = "done")
        => /\ lastResp[p].error.status = 404 => result[p] = Returned(<<>>)
           /\ (lastResp[p].error # NoError /\ lastResp[p].error.status # 404)
                 => result[p] = Raised(lastResp[p].error)
           /\ lastResp[p].error = NoError
                 => /\ result[p].status = "ok"
                    /\ Range(result[p].value) = aliases[name[p]]
                    /\ Len(result[p].value) = Cardinality(aliases[name[p]])

C9_Witness ==
    \E p \in Procs :
        /\ op[p] = "getIndicesForAlias"
        /\ pc[p] = "done"
        /\ lastResp[p].error.status = 404
        /\ result[p] = Returned(<<>>)
        /\ Len(requests[p]) = 1

\* ------------------------------------------------------------------------
\* One retention sweep at a time
\* ------------------------------------------------------------------------
SettingsRequest(p) == Req("getSettings", name[p] \o "*", <<>>)

\* C11: when getIndicesOlderThan returns no index, cleanupOldIndices returns
\* successfully in that same step, having sent the settings query and
\* nothing else: no alias query, no delete, and no index or alias binding
\* changes then or until the caller takes the result.
C11_NothingOldReturnsAtOnce ==
    [][\A p \in Callers :
          /\ (/\ op[p] = "cleanupOldIndices"
              /\ pc[p] = "getSettings"
              /\ requests'[p] # requests[p]
              /\ lastResp'[p].error = NoError
              /\ oldIndices'[p] = <<>>)
             => /\ pc'[p] = "done"
                /\ result'[p] = Returned(<<>>)
                /\ requests'[p] = <<SettingsRequest(p)>>
                /\ inflight'[p] = {}
                /\ UNCHANGED <<exists, aliases>>
          /\ (/\ op[p] = "cleanupOldIndices"
              /\ pc[p] = "done"
              /\ result[p] = Returned(<<>>)
              /\ oldIndices[p] = <<>>)
             => /\ requests'[p] \in {requests[p], <<>>}
                /\ UNCHANGED <<exists, aliases>>]_vars

C11_Witness ==
    \E p \in Callers :
        /\ op[p] = "cleanupOldIndices"
        /\ pc[p] = "done"
        /\ result[p] = Returned(<<>>)
        /\ oldIndices[p] = <<>>
        /\ requests[p] = <<SettingsRequest(p)>>
        /\ lastResp[p].error = NoError
        /\ Len(lastResp[p].keys) = 3
        /\ aliases[name[p]] # AppIndices

\* The number of delete calls of invocation p for index idx
DeleteCount(p, idx) ==
    Cardinality({k \in 1..Len(requests[p]) : requests[p][k] = Req("delete", idx, <<>>)})

\* Invocation p is a sweep whose alias query has been answered, with the
\* bound indices or with 404.
AliasQueryAnswered(p) ==
    /\ op[p] = "cleanupOldIndices"
    /\ Len(requests[p]) >= 2
    /\ GetIndicesForAliasResult(lastResp[p]).status = "ok"

\* C12: once its alias query is answered, cleanupOldIndices has issued one
\* delete call for each index it found older than the cutoff and not
\* reported as bound, and none for any other index; the indices it found
\* older are the existing indices of the prefix created before the cutoff,
\* and the ones reported as bound are the alias's bindings.
C12_OneDeletePerUnboundOld ==
    \A p \in Callers :
        AliasQueryAnswered(p)
        => /\ \A idx \in AllIndices :
                 DeleteCount(p, idx) =
                     IF idx \in Range(oldIndices[p]) /\ idx \notin Range(aliasedIndices[p])
                        THEN 1 ELSE 0
           /\ inflight[p] = DeleteTargets(p)
              => /\ Range(oldIndices[p]) =
                        {i \in exists : /\ StartsWith(i, name[p])
                                        /\ creation_date[i] < olderThanDate[p]}
                 /\ Range(aliasedIndices[p]) = aliases[name[p]]

C12_Witness ==
    \E p \in Callers :
        /\ AliasQueryAnswered(p)
        /\ Cardinality(DeleteTargets(p)) = 1
        /\ Len(oldIndices[p]) = 2
        /\ \E idx \in Range(oldIndices[p]) : idx \in Range(aliasedIndices[p])
        /\ \E idx \in AppIndices :
              idx \in exists /\ creation_date[idx] >= olderThanDate[p]

\* C13: cleanupOldIndices hands its outcome, success or failure, to the
\* caller only when none of the delete calls it issued is still in flight.
C13_ReportsAfterEveryDeleteSettled ==
    \A p \in Callers :
        (op[p] = "cleanupOldIndices" /\ pc[p] = "done") => inflight[p] = {}

\* The delete calls of sweep p that have settled and left their index in
\* place
SettledInPlace(p) == {idx \in DeleteTargets(p) \ inflight[p] : idx \in exists}

\* C14: in a sweep that has logged the failure of a delete call, the caller
\* gets the cluster's error, a delete call was issued for every candidate,
\* and every candidate whose call has settled is gone from the cluster
\* except the ones whose failure was logged.
C14_FailedDeleteFailsCallOthersProceed ==
    \A p \in Callers :
        (AliasQueryAnswered(p) /\ logged[p] >= 1)
        => /\ pc[p] = "done"
           /\ result[p].status = "err"
           /\ result[p].error \in {ClusterError(404), ClusterError(500)}
           /\ DeleteTargets(p) = Range(oldIndices[p]) \ Range(aliasedIndices[p])
           /\ Cardinality(SettledInPlace(p)) = logged[p]

C14_Witness ==
    \E p \in Callers :
        /\ AliasQueryAnswered(p)
        /\ logged[p] = 1
        /\ pc[p] = "done"
        /\ result[p].status = "err"
        /\ inflight[p] = {}
        /\ Cardinality(DeleteTargets(p)) = 3
        /\ Cardinality(DeleteTargets(p) \ exists) = 2

\* ------------------------------------------------------------------------
\* One alias swap at a time
\* ------------------------------------------------------------------------

\* The alias query of swap p has been answered with a failure other than 404.
SwapQueryFailed(p) ==
    /\ op[p] = "setAliasToSingleIndex"
    /\ requests[p] # <<>>
    /\ GetIndicesForAliasResult(lastResp[p]).status = "err"

\* C15: a setAliasToSingleIndex whose alias query fails raises that failure
\* and has sent nothing but the query; one that fails after the query was
\* answered has sent one alias-update request, raises the cluster's error,
\* and the alias is bound to exactly the indices the query reported.
C15_FailedSwapLeavesBindings ==
    \A p \in Callers :
        /\ SwapQueryFailed(p)
           => /\ pc[p] = "done"
              /\ result[p] = Raised(lastResp[p].error)
              /\ requests[p] = <<Req("getAlias", name[p], <<>>)>>
        /\ (/\ op[p] = "setAliasToSingleIndex"
            /\ pc[p] = "done"
            /\ result[p].status = "err"
            /\ ~SwapQueryFailed(p))
           => /\ result[p].error \in {ClusterError(404), ClusterError(500)}
              /\ Len(requests[p]) = 2
              /\ requests[p][2].api = "updateAliases"
              /\ aliases[name[p]] = Range(assocIndices[p])

C15_Witness ==
    \E p \in Callers :
        /\ op[p] = "setAliasToSingleIndex"
        /\ pc[p] = "done"
        /\ result[p].status = "err"
        /\ ~SwapQueryFailed(p)
        /\ Len(assocIndices[p]) = 2
        /\ indexName[p] \notin Range(assocIndices[p])
        /\ aliases[name[p]] = Range(assocIndices[p])

\* ------------------------------------------------------------------------
\* Calls without a prefix
\* ------------------------------------------------------------------------
MissingPrefixes == {"", AbsentName}

\* C20: getIndicesOlderThan and cleanupOldIndices called with an empty or
\* absent prefix end with the error "aliasName cannot be null" in their
\* first step, without any request to the cluster: no settings query, no
\* alias query, no delete.
C20_MissingPrefixRejected ==
    \A p \in Callers :
        (/\ op[p] \in {"getIndicesOlderThan", "cleanupOldIndices"}
         /\ name[p] \in MissingPrefixes
         /\ pc[p] # "getSettings")
        => /\ pc[p] = "done"
           /\ result[p] = Raised(ArgError(MsgAliasName))
           /\ requests[p] = <<>>
           /\ inflight[p] = {}

C20_Witness ==
    \E p \in Callers :
        /\ op[p] = "getIndicesOlderThan"
        /\ name[p] = ""
        /\ pc[p] = "done"
        /\ result[p] = Raised(ArgError(MsgAliasName))

C20_WitnessSweep ==
    \E p \in Callers :
        /\ op[p] = "cleanupOldIndices"
        /\ name[p] = AbsentName
        /\ pc[p] = "done"
        /\ result[p] = Raised(ArgError(MsgAliasName))

\* ------------------------------------------------------------------------
\* Bulk ingestion
\* ------------------------------------------------------------------------
Count(seq, x) == Cardinality({k \in 1..Len(seq) : seq[k] = x})
ErrorIds(errors) == [k \in 1..Len(errors) |-> errors[k].id]

\* Invocation p is an indexDocumentBulk that has handed over its outcome
\* for a bulk request the cluster answered with items
BulkAnswered(p) ==
    /\ op[p] = "indexDocumentBulk"
    /\ pc[p] = "done"
    /\ lastResp[p].error = NoError

\* C16: when the cluster answers the bulk request with items,
\* indexDocumentBulk returns three buckets that hold as many entries
\* together as the response has, and each id is in the three buckets
\* together as many times as the response has entries for it: no entry is
\* left out and none is in two buckets.
C16_EveryEntryInOneBucket ==
    \A p \in Callers :
        BulkAnswered(p)
        => /\ result[p].status = "ok"
           /\ Len(result[p].value.created) + Len(result[p].value.updated)
                 + Len(result[p].value.errors) = Len(lastResp[p].keys)
           /\ \A id \in DocIds :
                 Count(result[p].value.created, id) + Count(result[p].value.updated, id)
                   + Count(ErrorIds(result[p].value.errors), id)
                 = Count(Ids(lastResp[p].keys), id)

C16_Witness ==
    \E p \in Callers :
        /\ BulkAnswered(p)
        /\ Len(lastResp[p].keys) = 2
        /\ lastResp[p].keys[1]._id = lastResp[p].keys[2]._id
        /\ Len(result[p].value.created) = 1
        /\ Len(result[p].value.errors) = 1

\* C17: indexDocumentBulk raises exactly when the bulk request as a whole
\* fails, and then it raises that failure; when the request is answered
\* with items it returns, and its errors bucket lists, in order, the id and
\* the error of every entry that reports an error.
C17_RaisesOnlyForWholeRequest ==
    \A p \in Callers :
        (op[p] = "indexDocumentBulk" /\ pc[p] = "done")
        => IF lastResp[p].error # NoError
              THEN result[p] = Raised(lastResp[p].error)
              ELSE /\ result[p].status = "ok"
                   /\ \A k \in 1..Len(result[p].value.errors) :
                         result[p].value.errors[k].error = RejectCause
                   /\ ErrorIds(result[p].value.errors)
                      = Ids(SelectSeq(lastResp[p].keys, HasError))

C17_Witness ==
    \E p \in Callers :
        /\ BulkAnswered(p)
        /\ result[p].status = "ok"
        /\ Len(lastResp[p].keys) = 2
        /\ result[p].value.errors
           = <<[id |-> "d1", error |-> RejectCause], [id |-> "d2", error |-> RejectCause]>>

\* ------------------------------------------------------------------------
\* Index creation and optimisation
\* ------------------------------------------------------------------------

\* C18: optimizeIndex hands its caller a normal return whatever the answer
\* to its one force-merge request; it has logged no error when the request
\* succeeded or failed with status 504, and one error after any other
\* failure.
C18_OptimizeNeverRaises ==
    \A p \in Callers :
        (op[p] = "optimizeIndex" /\ pc[p] = "done")
        => /\ result[p] = Returned(<<>>)
           /\ requests[p] = <<Req("forcemerge", indexName[p], <<>>)>>
           /\ logged[p] = IF \/ lastResp[p].error = NoError
                             \/ lastResp[p].error.status = 504
                             THEN 0 ELSE 1

C18_Witness ==
    \E p \in Callers :
        /\ op[p] = "optimizeIndex"
        /\ pc[p] = "done"
        /\ lastResp[p].error = ClusterError(504)
        /\ result[p] = Returned(<<>>)
        /\ logged[p] = 0

C18_WitnessLogged ==
    \E p \in Callers :
        /\ op[p] = "optimizeIndex"
        /\ pc[p] = "done"
        /\ lastResp[p].error = TransportError
        /\ result[p] = Returned(<<>>)
        /\ logged[p] = 1

\* C19: createTimestampedIndex has sent one create request when it ends; it
\* returns exactly when that request succeeded, and then it returns the
\* name the request asked for, which now exists; when the request failed
\* it raises the request's error.
C19_ReturnsTheNameItCreated ==
    \A p \in Callers :
        (op[p] = "createTimestampedIndex" /\ pc[p] = "done")
        => /\ Len(requests[p]) = 1
           /\ requests[p][1].api = "create"
           /\ IF lastResp[p].error = NoError
                 THEN /\ result[p].status = "ok"
                      /\ result[p].value = requests[p][1].target
                      /\ result[p].value \in exists
                 ELSE result[p] = Raised(lastResp[p].error)

C19_Witness ==
    \E p \in Callers :
        /\ op[p] = "createTimestampedIndex"
        /\ pc[p] = "done"
        /\ result[p] = Returned("app_20240101_000002")
        /\ requests[p][1].target = "app_20240101_000002"
        /\ "app_20240101_000002" \in exists

C19_WitnessExists ==
    \E p \in Callers :
        /\ op[p] = "createTimestampedIndex"
        /\ pc[p] = "done"
        /\ result[p] = Raised(ClusterError(400))

\* ------------------------------------------------------------------------
\* Concurrent alias swaps
\* ------------------------------------------------------------------------

\* C21: when two concurrent setAliasToSingleIndex calls on the same alias
\* with different targets have both succeeded, the alias is bound to
\* exactly one index, the target of one of the two calls.
C21_ConcurrentSwapsLeaveOneTarget ==
    \A p \in Procs, q \in Procs :
        (/\ p # q
         /\ op[p] = "setAliasToSingleIndex" /\ op[q] = "setAliasToSingleIndex"
         /\ name[p] = name[q]
         /\ indexName[p] # indexName[q]
         /\ pc[p] = "done" /\ pc[q] = "done"
         /\ result[p].status = "ok" /\ result[q].status = "ok")
        => \/ aliases[name[p]] = {indexName[p]}
           \/ aliases[name[p]] = {indexName[q]}

\* ------------------------------------------------------------------------
\* No retry
\* ------------------------------------------------------------------------
ReceivedErrors ==
    {ClusterError(400), ClusterError(404), ClusterError(500), TransportError}

\* C22: within one invocation no cluster request is issued twice; the step
\* in which the failure of a request is logged ends the operation with
\* the error it received (optimizeIndex: with a normal return); and once
\* an operation has raised, it issues no further request and its outcome
\* does not change until the caller takes it.
C22_NoRetry ==
    /\ [](\A p \in Callers :
            /\ \A j \in 1..Len(requests[p]), k \in 1..Len(requests[p]) :
                  requests[p][j] = requests[p][k] => j = k
            /\ (result[p].status = "err" /\ logged[p] >= 1)
               => result[p].error \in ReceivedErrors)
    /\ [][\A p \in Callers :
            /\ logged'[p] > logged[p]
               => /\ pc'[p] = "done"
                  /\ IF op[p] = "optimizeIndex"
                        THEN result'[p] = Returned(<<>>)
                        ELSE result'[p].status = "err"
            /\ result[p].status = "err"
               => \/ requests'[p] = requests[p] /\ result'[p] = result[p]
                  \/ op'[p] = "idle" /\ requests'[p] = <<>>]_vars

C22_Witness ==
    \E p \in Callers :
        /\ op[p] = "cleanupOldIndices"
        /\ pc[p] = "done"
        /\ result[p] = Raised(ClusterError(500))
        /\ Len(requests[p]) = 5
        /\ logged[p] = 3
        /\ inflight[p] = {}

C22_WitnessDirect ==
    \E p \in Callers :
        /\ op[p] \in {"deleteIndex", "indexDocument", "createIndex"}
        /\ pc[p] = "done"
        /\ result[p].status = "err"
        /\ Len(requests[p]) = 1
        /\ logged[p] = 1

\* ------------------------------------------------------------------------
\* Re-running the sweep
\* ------------------------------------------------------------------------
\* The indices a run of cleanupOldIndices with the prefix and cutoff of
\* invocation p issues delete calls for when it starts in the current
\* state of the cluster and both its queries are answered.
RerunDeletes(p) ==
    Range(SweepCandidates(
              OlderThan(Keys(listing, {i \in exists : StartsWith(i, name[p])}),
                        creation_date, olderThanDate[p]),
              Keys(listing, aliases[name[p]]),
              minIndexesToKeep[p]))

\* Sweep p has handed over its outcome after issuing its delete calls (or
\* after finding nothing to delete) and each of its calls has settled.
SweepSettled(p) ==
    /\ op[p] = "cleanupOldIndices"
    /\ pc[p] = "done"
    /\ inflight[p] = {}
    /\ result[p].status = "ok" \/ AliasQueryAnswered(p)

\* C23: a sweep issues delete calls for existing indices only; when it has
\* settled, a second run with the same prefix and cutoff would issue
\* delete calls exactly for those of its candidates that still exist, and
\* for none at all when the sweep succeeded.
C23_RerunDeletesOnlyWhatIsLeft ==
    \A p \in Callers :
        /\ (op[p] = "cleanupOldIndices" /\ inflight[p] = DeleteTargets(p))
           => DeleteTargets(p) \subseteq exists
        /\ SweepSettled(p)
           => /\ RerunDeletes(p) = {idx \in DeleteTargets(p) : idx \in exists}
              /\ result[p].status = "ok" => RerunDeletes(p) = {}

\* A sweep in which one delete failed and another succeeded, run after an
\* earlier sweep had already deleted an index
C23_Witness ==
    \E p \in Callers :
        /\ SweepSettled(p)
        /\ result[p].status = "err"
        /\ Cardinality(DeleteTargets(p)) = 2
        /\ Cardinality(RerunDeletes(p)) = 1
        /\ Cardinality(AppIndices \ exists) = 2

\* A fully successful sweep that deleted two indices
C23_WitnessSuccess ==
    \E p \in Callers :
        /\ SweepSettled(p)
        /\ result[p].status = "ok"
        /\ Cardinality(DeleteTargets(p)) = 2
        /\ DeleteTargets(p) \cap exists = {}

\* ------------------------------------------------------------------------
\* What the sweep keeps
\* ------------------------------------------------------------------------
\* C24: a sweep that has issued delete calls, and so found at least one
\* index of its prefix, leaves at least one index of the prefix in the
\* cluster.
C24_AlwaysAtLeastOneKept ==
    \A p \in Callers :
        (op[p] = "cleanupOldIndices" /\ DeleteTargets(p) # {})
        => \E idx \in exists : StartsWith(idx, name[p])

\* C25: the requests of a sweep whose alias query is answered are the two
\* queries followed by the delete calls computed from the two answers, and
\* that computation gives the same delete calls for every value of
\* minIndexesToKeep, the one the sweep was called with included.
C25_MinIndexesToKeepHasNoEffect ==
    \A p \in Callers :
        AliasQueryAnswered(p)
        => /\ minIndexesToKeep[p] \in MinIndexesArgs
           /\ \A m \in MinIndexesArgs :
                 SubSeq(requests[p], 3, Len(requests[p])) =
                     DeleteRequests(SweepCandidates(oldIndices[p],
                                                    aliasedIndices[p], m))

\* A sweep told to keep three indices that issued three delete calls
C25_Witness ==
    \E p \in Callers :
        /\ AliasQueryAnswered(p)
        /\ minIndexesToKeep[p] = 3
        /\ Cardinality(DeleteTargets(p)) = 3
        /\ pc[p] = "done"
        /\ AppIndices \cap exists = {}

\* C26: a sweep of a prefix deletes no index that is bound to an alias
\* other than the one named like the prefix.
C26_NoIndexOfAnotherAliasDeleted ==
    [][\A p \in Callers :
          \A idx \in inflight[p] \ inflight'[p] :
              (op[p] = "cleanupOldIndices" /\ idx \in exists /\ idx \notin exists')
              => \A a \in AliasNames \ {name[p]} : idx \notin aliases[a]]_vars

\* ------------------------------------------------------------------------
\* The logger
\* ------------------------------------------------------------------------
\* C27: an operation that has reported a cluster failure to the logger
\* ends with the error the cluster gave it, whether the logger worked or
\* threw; optimizeIndex ends with a normal return.
C27_LoggerFailureMasksNothing ==
    \A p \in Callers :
        (pc[p] = "done" /\ logged[p] >= 1)
        => IF op[p] = "optimizeIndex"
              THEN result[p].status = "ok"
              ELSE /\ result[p].status = "err"
                   /\ result[p].error # LoggerError
                   /\ result[p].error \in ReceivedErrors

\* ------------------------------------------------------------------------
\* The shape of the index lists
\* ------------------------------------------------------------------------
\* C28: in the request updateAlias submits, the indices of the add action
\* are the add argument as it was given, a string as that string and an
\* array as that array, and the indices of the remove action are the
\* remove argument as it was given.
C28_IndexListsPassedAsGiven ==
    \A p \in Callers :
        (op[p] = "updateAlias" /\ Len(requests[p]) = 1)
        => \A k \in 1..Len(requests[p][1].actions) :
              LET act == requests[p][1].actions[k]
              IN  act.indices = IF act.type = "add" THEN addArg[p] ELSE removeArg[p]

\* ------------------------------------------------------------------------
\* The generated name
\* ------------------------------------------------------------------------
DigitChars == {Digit(d) : d \in 0..9}

\* s consists of n decimal digits
AllDigits(s, n) ==
    Len(s) = n /\ \A k \in 1..n : SubSeq(s, k, k) \in DigitChars

\* What follows the prefix in the name createTimestampedIndex asked the
\* cluster to create
GeneratedSuffix(p) ==
    SubSeq(requests[p][1].target, Len(name[p]) + 1, Len(requests[p][1].target))

TimestampedCreateSent(p) ==
    /\ op[p] = "createTimestampedIndex"
    /\ Len(requests[p]) = 1
    /\ requests[p][1].api = "create"

\* C29 as stated: the name createTimestampedIndex creates is the prefix,
\* one underscore and fourteen digits with no other separator.
C29_PrefixUnderscoreFourteenDigits ==
    \A p \in Callers :
        TimestampedCreateSent(p)
        => /\ StartsWith(requests[p][1].target, name[p])
           /\ SubSeq(GeneratedSuffix(p), 1, 1) = "_"
           /\ AllDigits(SubSeq(GeneratedSuffix(p), 2, Len(GeneratedSuffix(p))), 14)

\* C29, amended: the name createTimestampedIndex creates is the prefix, one
\* underscore, the eight digits of the date, a second underscore and the
\* six digits of the time (YYYYMMDD_HHmmss).
C29_PrefixDateUnderscoreTime ==
    \A p \in Callers :
        TimestampedCreateSent(p)
        => /\ StartsWith(requests[p][1].target, name[p])
           /\ Len(GeneratedSuffix(p)) = 16
           /\ SubSeq(GeneratedSuffix(p), 1, 1) = "_"
           /\ AllDigits(SubSeq(GeneratedSuffix(p), 2, 9), 8)
           /\ SubSeq(GeneratedSuffix(p), 10, 10) = "_"
           /\ AllDigits(SubSeq(GeneratedSuffix(p), 11, 16), 6)

\* A name generated in the last second of the day
C29_Witness ==
    \E p \in Callers :
        /\ TimestampedCreateSent(p)
        /\ pc[p] = "done"
        /\ name[p] = "app"
        /\ requests[p][1].target = "app_20240101_235959"

\* ------------------------------------------------------------------------
\* The body of the bulk request
\* ------------------------------------------------------------------------
BulkSent(p) == op[p] = "indexDocumentBulk" /\ pc[p] = "done"

\* C30: indexDocumentBulk sends one bulk request whose body has two
\* entries for each pair of its input, in input order: the index action
\* header with the index name and the pair's id, then the pair's document;
\* pairs with the same id are all sent.
C30_BulkBodyInInputOrder ==
    \A p \in Callers :
        BulkSent(p)
        => /\ Len(requests[p]) = 1
           /\ requests[p][1].api = "bulk"
           /\ Len(requests[p][1].actions) = 2 * Len(idDocArr[p])
           /\ \A i \in 1..Len(idDocArr[p]) :
                 /\ requests[p][1].actions[2 * i - 1] =
                        [kind |-> "index", _index |-> indexName[p],
                         _id |-> idDocArr[p][i][1], source |-> ""]
                 /\ requests[p][1].actions[2 * i] =
                        [kind |-> "source", _index |-> "", _id |-> "",
                         source |-> idDocArr[p][i][2]]

\* Two pairs with the same id and different documents
C30_Witness ==
    \E p \in Callers :
        /\ BulkSent(p)
        /\ idDocArr[p] = <<<<"d1", "a">>, <<"d1", "b">>>>
        /\ Len(requests[p][1].actions) = 4

C30_WitnessOrder ==
    \E p \in Callers :
        /\ BulkSent(p)
        /\ idDocArr[p] = <<<<"d2", "b">>, <<"d1", "a">>>>
        /\ lastResp[p].error = NoError

====
